---- MODULE Spec2Model ----
(***************************************************************************)
(* Model of src/app.py, the Streamlit label generator: the sidebar and     *)
(* form widgets, the "Generate PDF" handler with its validation branch,    *)
(* the batch loop that composes one page per label on a reportlab canvas,  *)
(* and the final save / success message / download button.                 *)
(*                                                                         *)
(* Lengths are exact integers in thousandths of an inch (inch = 1000), so  *)
(* that every constant of the source (0.022 inch, 0.15 inch, ...) and      *)
(* every half-inch label dimension is represented without rounding.        *)
(* Strings are sequences: a text line is a sequence of characters, a       *)
(* barcode value a sequence of character codes.                            *)
(***************************************************************************)
EXTENDS Integers, Sequences, FiniteSets, TLC

\* ------------------------------------------------------------------ units
inch == 1000

\* ---------------------------------------------------------------- bounds
\* Largest batch count typed into the sidebar by the model's user.
MaxBatch == 3

\* ------------------------------------------------- widget configuration
\* Width/height widgets work in steps of 0.5 inch; the model stores the
\* number of half-inches.  min_value=1.0, max_value=10.0.
MinDimHalves == 2
MaxDimHalves == 20
DefaultWidthHalves == 8
DefaultHeightHalves == 6
MinBatchCount == 1
MaxBatchCount == 1000

\* Values the user types into the widgets (some outside the accepted range).
WidthInputs == {1, 2, 8, 20, 21}
HeightInputs == {1, 2, 3, 5, 6, 20, 21}
BatchInputs == (-1 .. MaxBatch) \cup {MaxBatchCount + 1}

SP == " "
Letter == <<"a", "b", "c", "d">>
\* Each text input is left empty, holds only blanks, or holds padded text.
LineInputs(i) == { <<>>, <<SP>>, <<SP, Letter[i], SP, Letter[i], SP>> }

\* Barcode inputs as character codes: none, "A", a blank, ten characters,
\* and a value holding a non-ASCII character (233).
BarcodeInputs ==
    { <<>>, <<65>>, <<32>>,
      <<65, 66, 67, 49, 50, 51, 52, 53, 54, 55>>,
      <<65, 233>> }

VARIABLES
    label_width,    \* st.session_state.label_width, in half-inches
    label_height,   \* st.session_state.label_height, in half-inches
    batch_count,    \* st.session_state.batch_count
    barcode_val,    \* the barcode text input
    lines,          \* <<line1, line2, line3, line4>> text inputs
    pc,             \* position of the script: "idle", "loop", "saved", "done"
    doc,            \* the canvas: "none", "building", "sealed"
    pages,          \* pages already closed in the document (each a draw list)
    cur,            \* draw operations on the canvas's open page
    breaks,         \* number of c.showPage() calls made by the loop
    label_idx,      \* number of loop iterations already run
    y_cursor,       \* the vertical text cursor
    messages,       \* st.warning / st.error / st.success calls, in order
    offered         \* whether the download button is shown

vars == << label_width, label_height, batch_count, barcode_val, lines, pc, doc,
           pages, cur, breaks, label_idx, y_cursor, messages, offered >>

widgets == << label_width, label_height, batch_count, barcode_val, lines >>

\* ------------------------------------------------------ pure helpers
Max(a, b) == IF a >= b THEN a ELSE b

RECURSIVE lstrip(_)
lstrip(s) == IF s # <<>> /\ Head(s) = SP THEN lstrip(Tail(s)) ELSE s

RECURSIVE rstrip(_)
rstrip(s) ==
    IF s # <<>> /\ s[Len(s)] = SP THEN rstrip(SubSeq(s, 1, Len(s) - 1)) ELSE s

StripKeepsBlanks(s) == s

\* str.strip()
strip(s) == rstrip(lstrip(s))

NonEmpty(s) == strip(s) # <<>>

RECURSIVE FilterLines(_)
FilterLines(ls) ==
    IF ls = <<>> THEN <<>>
    ELSE IF NonEmpty(Head(ls)) THEN <<strip(Head(ls))>> \o FilterLines(Tail(ls))
         ELSE FilterLines(Tail(ls))

\* text_lines = [line.strip() for line in text_lines if line.strip()]
text_lines == FilterLines(lines)

\* w, h: page size in thousandths of an inch
w == (label_width * inch) \div 2
h == (label_height * inch) \div 2

total_labels == batch_count

\* ------------------------------------------------------ text layout
LeftInset == (2 * inch) \div 10         \* 0.2 * inch
TopMargin == (2 * inch) \div 10         \* 0.2 * inch
LinePitch == (2 * inch) \div 10         \* 0.2 * inch
BottomReserve == (3 * inch) \div 10     \* 0.3 * inch
BaselineDrop == (15 * inch) \div 100    \* 0.15 * inch
WrapMargin == (4 * inch) \div 10        \* 0.4 * inch

StartCursorCarried(hh, prev, idx) == IF idx = 0 THEN hh - TopMargin ELSE prev

\* y_cursor = h - 0.2 * inch, assigned at the top of every loop iteration
StartCursor(hh, prev, idx) == hh - TopMargin

OverflowReservesBarcode(y) == y < (8 * inch) \div 10

\* if y_cursor < 0.3 * inch: break
Overflow(y) == y < BottomReserve

\* Paragraph(line).wrap(w - 0.4 inch, h); drawOn(c, 0.2 inch, y_cursor - 0.15 inch)
TextOp(line, y) ==
    [kind |-> "text", text |-> line, x |-> LeftInset, y |-> y - BaselineDrop,
     wrap |-> w - WrapMargin]

\* for line in text_lines: ... ; the result is the draw list and the cursor
RECURSIVE DrawText(_, _, _)
DrawText(ls, y, ops) ==
    IF ls = <<>> \/ Overflow(y) THEN [ops |-> ops, y |-> y]
    ELSE DrawText(Tail(ls), y - LinePitch, Append(ops, TextOp(Head(ls), y)))

\* ---------------------------------------------------- barcode layout
barWidth == (22 * inch) \div 1000       \* 0.022 * inch
barHeight == (6 * inch) \div 10         \* 0.6 * inch
quietZone == (12 * inch) \div 100       \* 0.12 * inch
BarcodeMargin == (6 * inch) \div 10     \* 0.6 * inch
MinBarcodeY == (8 * inch) \div 10       \* 0.8 * inch
CenterDrop == (3 * inch) \div 10        \* 0.3 * inch
CaptionDrop == (18 * inch) \div 100     \* 0.18 * inch
\* width of one caption character (Helvetica 10), thousandths of an inch
CaptionCharWidth == 92

\* Code 128 encodes 7-bit characters only; any other value makes
\* createBarcodeDrawing raise.
Code128Valid(val) == \A i \in 1 .. Len(val) : val[i] <= 127

\* start + data + checksum symbols of 11 modules, a stop symbol of 13
Code128Modules(val) == 11 * (Len(val) + 2) + 13

\* createBarcodeDrawing('Code128', value=..., barWidth=..., barHeight=...,
\*                      humanReadable=False, quietZone=...)
createBarcodeDrawing(val) ==
    [ok     |-> Code128Valid(val),
     width  |-> Code128Modules(val) * barWidth + 2 * quietZone,
     height |-> barHeight]

MAX_BARCODE_WIDTH(ww) == ww - BarcodeMargin

ScaleBothAxes(g, ww) ==
    IF g.width > MAX_BARCODE_WIDTH(ww)
    THEN [width |-> MAX_BARCODE_WIDTH(ww),
          sx |-> <<MAX_BARCODE_WIDTH(ww), g.width>>,
          sy |-> <<MAX_BARCODE_WIDTH(ww), g.width>>]
    ELSE [width |-> g.width, sx |-> <<1, 1>>, sy |-> <<1, 1>>]

\* if barcode_obj.width > MAX_BARCODE_WIDTH: scale(scale, 1); width = MAX
\* A scale factor is the exact fraction <<numerator, denominator>>.
ClampGlyph(g, ww) ==
    IF g.width > MAX_BARCODE_WIDTH(ww)
    THEN [width |-> MAX_BARCODE_WIDTH(ww),
          sx |-> <<MAX_BARCODE_WIDTH(ww), g.width>>,
          sy |-> <<1, 1>>]
    ELSE [width |-> g.width, sx |-> <<1, 1>>, sy |-> <<1, 1>>]

\* y_bc = max(0.8 * inch, h / 2 - 0.3 * inch)
BarcodeY(hh) == Max(MinBarcodeY, hh \div 2 - CenterDrop)

\* stringWidth(barcode_val, 'Helvetica', 10)
stringWidth(val) == CaptionCharWidth * Len(val)

\* The try block of one page: the glyph and caption draws, or the error.
DrawBarcode(val) ==
    LET g == createBarcodeDrawing(val)
        c == ClampGlyph(g, w)
        y_bc == BarcodeY(h)
    IN  IF ~g.ok THEN [ops |-> <<>>, failed |-> TRUE]
        ELSE [ops |-> << [kind |-> "barcode", x |-> (w - c.width) \div 2,
                          y |-> y_bc, width |-> c.width, height |-> g.height,
                          sx |-> c.sx, sy |-> c.sy],
                         [kind |-> "caption", text |-> val,
                          x |-> (w - stringWidth(val)) \div 2,
                          y |-> y_bc - CaptionDrop] >>,
              failed |-> FALSE]

\* ------------------------------------------------------------ widgets
AcceptsBatchFromZero(n) == 0 <= n /\ n <= MaxBatchCount

\* st.number_input(min_value=1, max_value=1000, step=1)
AcceptsBatch(n) == MinBatchCount <= n /\ n <= MaxBatchCount

\* st.number_input(min_value=1.0, max_value=10.0, step=0.5)
AcceptsDim(v) == MinDimHalves <= v /\ v <= MaxDimHalves

Interactive == pc \in {"idle", "done"}

\* Any widget change reruns the script with the button unpressed: whatever
\* the previous run displayed is gone.
Rerun ==
    /\ pc' = "idle"
    /\ doc' = "none"
    /\ pages' = <<>>
    /\ cur' = <<>>
    /\ breaks' = 0
    /\ label_idx' = 0
    /\ y_cursor' = 0
    /\ messages' = <<>>
    /\ offered' = FALSE

Init ==
    /\ label_width = DefaultWidthHalves
    /\ label_height = DefaultHeightHalves
    /\ batch_count = 1
    /\ barcode_val = <<>>
    /\ lines = << <<>>, <<>>, <<>>, <<>> >>
    /\ pc = "idle"
    /\ doc = "none"
    /\ pages = <<>>
    /\ cur = <<>>
    /\ breaks = 0
    /\ label_idx = 0
    /\ y_cursor = 0
    /\ messages = <<>>
    /\ offered = FALSE

SetWidth ==
    /\ Interactive
    /\ \E v \in WidthInputs :
          /\ AcceptsDim(v)
          /\ v # label_width
          /\ label_width' = v
    /\ Rerun
    /\ UNCHANGED << label_height, batch_count, barcode_val, lines >>

SetHeight ==
    /\ Interactive
    /\ \E v \in HeightInputs :
          /\ AcceptsDim(v)
          /\ v # label_height
          /\ label_height' = v
    /\ Rerun
    /\ UNCHANGED << label_width, batch_count, barcode_val, lines >>

SetBatch ==
    /\ Interactive
    /\ \E n \in BatchInputs :
          /\ AcceptsBatch(n)
          /\ n # batch_count
          /\ batch_count' = n
    /\ Rerun
    /\ UNCHANGED << label_width, label_height, barcode_val, lines >>

SetBarcode ==
    /\ Interactive
    /\ \E b \in BarcodeInputs :
          /\ b # barcode_val
          /\ barcode_val' = b
    /\ Rerun
    /\ UNCHANGED << label_width, label_height, batch_count, lines >>

SetLine ==
    /\ Interactive
    /\ \E i \in 1 .. 4 : \E s \in LineInputs(i) :
          /\ s # lines[i]
          /\ lines' = [lines EXCEPT ![i] = s]
    /\ Rerun
    /\ UNCHANGED << label_width, label_height, batch_count, barcode_val >>

\* --------------------------------------------------- Generate PDF handler
ChecksRawLines(bv, tl) == bv = <<>> /\ lines = <<>>

\* if not barcode_val and not text_lines
IsEmptyRequest(bv, tl) == bv = <<>> /\ tl = <<>>

\* st.button("Generate PDF") pressed: the validation branch, or the buffer
\* and canvas are created and the loop is entered.
Generate ==
    /\ Interactive
    /\ IF IsEmptyRequest(barcode_val, text_lines)
       THEN /\ pc' = "done"
            /\ doc' = "none"
            /\ messages' = <<"warning">>
       ELSE /\ pc' = "loop"
            /\ doc' = "building"
            /\ messages' = <<>>
    /\ pages' = <<>>
    /\ cur' = <<>>
    /\ breaks' = 0
    /\ label_idx' = 0
    /\ y_cursor' = 0
    /\ offered' = FALSE
    /\ UNCHANGED widgets

LoopDoneAfterFirst(idx, total) == idx >= 1

\* range(total_labels) is exhausted
LoopDone(idx, total) == idx >= total

\* One iteration of "for label_idx in range(total_labels)".
ComposePage ==
    /\ pc = "loop"
    /\ ~LoopDone(label_idx, total_labels)
    /\ LET y0 == StartCursor(h, y_cursor, label_idx)
           t  == IF text_lines # <<>> THEN DrawText(text_lines, y0, <<>>)
                 ELSE [ops |-> <<>>, y |-> y0]
           b  == IF barcode_val # <<>> THEN DrawBarcode(barcode_val)
                 ELSE [ops |-> <<>>, failed |-> FALSE]
       IN  /\ IF label_idx > 0
              THEN /\ pages' = Append(pages, cur)      \* c.showPage()
                   /\ breaks' = breaks + 1
              ELSE UNCHANGED << pages, breaks >>
           /\ cur' = t.ops \o b.ops
           /\ y_cursor' = t.y
           /\ messages' = IF b.failed THEN Append(messages, "error")
                          ELSE messages
    /\ label_idx' = label_idx + 1
    /\ UNCHANGED << pc, doc, offered >>
    /\ UNCHANGED widgets

\* Canvas.save(): "if there is current data a showPage is executed"
HasCurrentData(c) == c # <<>>

\* c.save(); buffer.seek(0)
Save ==
    /\ pc = "loop"
    /\ LoopDone(label_idx, total_labels)
    /\ IF HasCurrentData(cur)
       THEN pages' = Append(pages, cur) /\ cur' = <<>>
       ELSE UNCHANGED << pages, cur >>
    /\ doc' = "sealed"
    /\ pc' = "saved"
    /\ UNCHANGED << breaks, label_idx, y_cursor, messages, offered >>
    /\ UNCHANGED widgets

\* st.success(...); st.download_button(...)
Offer ==
    /\ pc = "saved"
    /\ messages' = Append(messages, "success")
    /\ offered' = TRUE
    /\ pc' = "done"
    /\ UNCHANGED << doc, pages, cur, breaks, label_idx, y_cursor >>
    /\ UNCHANGED widgets

Next ==
    \/ SetWidth
    \/ SetHeight
    \/ SetBatch
    \/ SetBarcode
    \/ SetLine
    \/ Generate
    \/ ComposePage
    \/ Save
    \/ Offer

Spec == Init /\ [][Next]_vars

\* The script is synchronous: once the button is pressed the run goes on to
\* its end without waiting for anything.
FairSpec == Spec /\ WF_vars(ComposePage) /\ WF_vars(Save) /\ WF_vars(Offer)

\* ------------------------------------------------------------ properties
\* The draw lists of the pages composed so far in the current run.
AllPlans ==
    pages \o (IF doc = "building" /\ label_idx > 0 THEN <<cur>> ELSE <<>>)

IsText(o) == o.kind = "text"
IsBarcode(o) == o.kind = "barcode"
TextOps(plan) == SelectSeq(plan, IsText)
BarcodeOps(plan) == SelectSeq(plan, IsBarcode)
IsError(m) == m = "error"
ErrorCount == Len(SelectSeq(messages, IsError))

\* every character of every text input is a blank
AllBlank == \A i \in 1 .. 4 : \A k \in 1 .. Len(lines[i]) : lines[i][k] = SP

\* C1: once the button has been pressed on a request with no barcode value
\* and four blank lines, the run ends at the warning: no canvas exists, no
\* page was composed, nothing is offered.
C1_RejectedBeforeDrawing ==
    (pc # "idle" /\ barcode_val = <<>> /\ AllBlank)
        => /\ pc = "done"
           /\ messages = <<"warning">>
           /\ doc = "none"
           /\ pages = <<>> /\ cur = <<>>
           /\ label_idx = 0 /\ breaks = 0
           /\ ~offered

C1_Witness ==
    /\ pc = "done" /\ messages = <<"warning">>
    /\ barcode_val = <<>> /\ AllBlank
    /\ lines[2] = <<SP>>

\* C2: a finished, accepted request with repeat count N has a document of
\* exactly N pages and made exactly N-1 page breaks.
C2_PagesAndBreaks ==
    (pc = "done" /\ offered)
        => (Len(pages) = total_labels /\ breaks = total_labels - 1)

\* The non-empty inputs, stripped, in input order.
IsNonEmptySeq(s) == s # <<>>
ExpectedLines == SelectSeq([i \in 1 .. 4 |-> strip(lines[i])], IsNonEmptySeq)

\* Cumulative height consumed when the k-th line is reached exceeds the
\* page height minus the reserved 0.3 inch.
Exceeds(k) == TopMargin + (k - 1) * LinePitch > h - BottomReserve

\* Number of lines drawn: those before the first line that exceeds.
DrawnCount ==
    Cardinality({ k \in 1 .. Len(ExpectedLines) : \A j \in 1 .. k : ~Exceeds(j) })

\* C3: on every composed page the text draws are the first DrawnCount
\* non-empty stripped inputs, in input order, the k-th at cursor
\* h - 0.2 inch - (k-1) * 0.2 inch; truncation raises no error.
C3_TextDraws ==
    /\ \A p \in 1 .. Len(AllPlans) :
          LET t == TextOps(AllPlans[p])
          IN  /\ Len(t) = DrawnCount
              /\ \A k \in 1 .. Len(t) :
                    /\ t[k].text = ExpectedLines[k]
                    /\ t[k].y = h - TopMargin - (k - 1) * LinePitch - BaselineDrop
              /\ Len(t) < Len(ExpectedLines) => Exceeds(Len(t) + 1)
    /\ ErrorCount > 0 => ~Code128Valid(barcode_val)

C3_Witness ==
    /\ pc = "done" /\ offered
    /\ Len(ExpectedLines) = 4
    /\ lines[1] # ExpectedLines[1]
    /\ Len(TextOps(pages[1])) = 3
    /\ messages = <<"success">>

\* C4: a drawn glyph wider than the page width minus 0.6 inch is scaled on
\* the horizontal axis only and placed with exactly that width; a narrower
\* one is unscaled with its natural width; either way it is centred.
C4_ClampAndCentre ==
    \A p \in 1 .. Len(AllPlans) :
        LET b == BarcodeOps(AllPlans[p])
            nat == Code128Modules(barcode_val) * barWidth + 2 * quietZone
            lim == w - (6 * inch) \div 10
        IN  \A k \in 1 .. Len(b) :
               /\ IF nat > lim
                  THEN /\ b[k].width = lim
                       /\ b[k].sx = <<lim, nat>>
                       /\ b[k].sy = <<1, 1>>
                  ELSE /\ b[k].width = nat
                       /\ b[k].sx = <<1, 1>>
                       /\ b[k].sy = <<1, 1>>
               /\ 2 * b[k].x = w - b[k].width

C4_Witness ==
    /\ pc = "done" /\ offered
    /\ Len(pages) >= 1
    /\ Len(BarcodeOps(pages[1])) = 1
    /\ Code128Modules(barcode_val) * barWidth + 2 * quietZone > w - (6 * inch) \div 10
    /\ BarcodeOps(pages[1])[1].sx # <<1, 1>>

\* Candidate fixed gaps and the accepted page heights of the model's inputs.
Gaps == { 50 * k : k \in 0 .. 200 }
AcceptedHeights == { (v * inch) \div 2 : v \in { u \in HeightInputs : AcceptsDim(u) } }

\* C5: on a page with text, the glyph is at max(0.8 inch, cursor - gap) for
\* one fixed gap: the gap that explains this page also explains where the
\* code puts the glyph under the same text on every other page height.
C5_BelowLastText ==
    \A p \in 1 .. Len(AllPlans) :
        LET b == BarcodeOps(AllPlans[p])
            t == TextOps(AllPlans[p])
        IN  (Len(b) = 1 /\ Len(t) > 0) =>
               \E gap \in Gaps :
                  \A hh \in AcceptedHeights :
                     BarcodeY(hh) =
                        Max(MinBarcodeY,
                            DrawText(text_lines, StartCursor(hh, 0, 0), <<>>).y - gap)

\* C6: a glyph failure aborts the request: one error is reported, no later
\* page is composed (so no second error), and the run does not end in the
\* success message and the download.
C6_AbortsOnGlyphFailure ==
    ErrorCount > 0 =>
        /\ ErrorCount = 1
        /\ ~offered
        /\ \A i \in 1 .. Len(messages) : messages[i] # "success"

\* C7: every page composed in a run has the same draw list as the first.
C7_PagesIdentical ==
    \A i \in 1 .. Len(AllPlans) : AllPlans[i] = AllPlans[1]

C7_Witness ==
    /\ pc = "done" /\ offered
    /\ Len(pages) = 3
    /\ Len(TextOps(pages[3])) >= 2
    /\ Len(BarcodeOps(pages[3])) = 1

\* C8: the repeat count in force is never below 1, so no run validates,
\* builds, seals or offers a document for such a count; a sealed document
\* of an accepted count has been through at least one loop iteration.
C8_CountAtLeastOne ==
    /\ batch_count >= 1
    /\ (doc # "none" \/ offered) => total_labels >= 1
    /\ doc = "sealed" => label_idx >= 1

C8_Witness ==
    /\ pc = "done" /\ offered /\ doc = "sealed"
    /\ total_labels = 1 /\ label_idx = 1

\* C9: the canvas is sealed only from building and only when the loop has
\* run all its iterations; a sealed canvas gets no page break and no draw;
\* the download is offered only for a sealed canvas; a canvas that is being
\* built does get sealed; a successful run ends with a sealed canvas.
C9_SealedState ==
    /\ doc = "sealed" => label_idx = total_labels
    /\ offered => doc = "sealed"
    /\ (pc = "done" /\ messages # <<"warning">>) => (doc = "sealed" /\ offered)

C9_SealStep ==
    /\ (doc # "sealed" /\ doc' = "sealed")
          => (doc = "building" /\ label_idx = total_labels)
    /\ (doc = "sealed" /\ doc' = "sealed")
          => UNCHANGED << pages, cur, breaks, label_idx >>
    /\ (doc = "sealed" /\ doc' = "building")
          => (pc = "done" /\ pages' = <<>> /\ cur' = <<>> /\ breaks' = 0)
    /\ doc = "building" => doc' \in {"building", "sealed"}

C9_BuildingThenSealedOnce ==
    /\ []C9_SealedState
    /\ [][C9_SealStep]_vars
    /\ (doc = "building") ~> (doc = "sealed")

C9_Witness ==
    /\ pc = "done" /\ offered /\ doc = "sealed"
    /\ Len(pages) = 3 /\ breaks = 2

\* C10: a drawn glyph lies inside the page on both axes.
C10_GlyphInsidePage ==
    \A p \in 1 .. Len(AllPlans) :
        LET b == BarcodeOps(AllPlans[p])
        IN  \A k \in 1 .. Len(b) :
               /\ b[k].x >= 0
               /\ b[k].x + b[k].width <= w
               /\ b[k].y >= 0
               /\ b[k].y + barHeight <= h

====
